---- MODULE Spec2Model ----
(***************************************************************************)
(* The Simon game engine (class Model of model.cpp) as a state machine.    *)
(* Every statement of startGame, addRound, addRandomMove, playSequence and *)
(* checkIsTrueButton is one step, so the states inside a handler are       *)
(* states of the model.  Handlers run to completion on the single UI       *)
(* thread: a new handler is entered only when pc = "idle".                 *)
(* The view (class MainWindow of mainwindow.cpp) is connected to the       *)
(* signals by direct connections, so a slot of the view runs inside the    *)
(* step that emits the signal.  Its one-shot timers fire from the event    *)
(* loop, that is when pc = "idle".  Time is not modelled: a pending timer  *)
(* may fire at any visit of the event loop, which includes every order the *)
(* delays allow.  The arithmetic of the delays and the animation of the    *)
(* buttons started by roundStarted touch no state of the engine; they are  *)
(* stepped in specifications of their own (SpecDelay, SpecAnimate).        *)
(***************************************************************************)
EXTENDS Integers, Sequences, FiniteSets, Bags, TLC

\* Longest sequence explored: a press that would start round MaxRound + 1
\* is not taken.
MaxRound == 4

\* std::rand() yields a value in 0..RAND_MAX; the model draws it from
\* 0..MaxRand.
MaxRand == 3

\* Largest `total` given to the delay arithmetic of MainWindow::flashButton
\* (9^total must fit the 32-bit integers of the checker).
MaxTotal == 8

\* The random positions of animateButtonMovement are drawn on a grid of this
\* many pixels (a subset of the draws of QRandomGenerator::bounded).
DrawStep == 40

\* Most one-shot timers pending at once: a handler that would schedule more
\* is not taken.
MaxPending == 4

\* The same limit where behaviours are checked under fairness.
FairPending == 2

VARIABLES
    m_currentRound,   \* Model::m_currentRound
    m_sequence,       \* Model::m_sequence (1-based here, 0-based in the code)
    m_userIndex,      \* Model::m_userIndex
    pc,               \* the statement the UI thread executes next
    op,               \* the handler that runs or ran last
    button,           \* local `button` of checkIsTrueButton
    i,                \* loop variable of playSequence
    trace,            \* the signals emitted by the current handler, in order
    reads,            \* the 0-based indexes of m_sequence read by operator[]
    lost,             \* lose() was emitted since the last startGame
    pre,              \* the state in which the current handler was entered
    flashTimers,      \* bag of the pending outer lambdas of MainWindow::flashButton
    revertTimers,     \* bag of the pending inner (revert) lambdas
    styleSheet,       \* background colour of ui->redButton (0), ui->blueButton (1)
    progressBar,      \* {v}: value set on ui->progressBar; {} until the first set
    total,            \* argument `total` of MainWindow::flashButton
    current,          \* argument `current` of MainWindow::flashButton
    baseDelay,        \* local `baseDelay` of MainWindow::flashButton
    flashDelay,       \* msec given to the outer QTimer::singleShot
    revertDelay,      \* msec given to the inner QTimer::singleShot
    dpc,              \* the statement of MainWindow::flashButton executed next
    geometry,         \* geometry() of the central widget's rect and of the widgets
    redCandidate,     \* local `redCandidate` of animateButtonMovement
    blueCandidate,    \* local `blueCandidate`
    redValid,         \* local `redValid`
    blueValid,        \* local `blueValid`
    attempt,          \* loop variable `attempt`
    apc,              \* the statement of animateButtonMovement executed next
    cap               \* the limit on pending timers in force (never changes)

vars == <<m_currentRound, m_sequence, m_userIndex, pc, op, button, i,
          trace, reads, lost, pre>>

state == <<m_currentRound, m_sequence, m_userIndex>>

view == <<flashTimers, revertTimers, styleSheet, progressBar>>

delay == <<total, current, baseDelay, flashDelay, revertDelay, dpc>>

anim == <<geometry, redCandidate, blueCandidate, redValid, blueValid,
          attempt, apc>>

aside == <<delay, anim, cap>>

\* ---------------------------------------------------------------- signals
totalRoundUpdated(totalRounds) == <<"totalRoundUpdated", totalRounds>>

totalAndCurrentRound(matched, totalRounds) ==
    <<"totalAndCurrentRound", matched, totalRounds>>

roundStarted(currentRound) == <<"roundStarted", currentRound>>

flashButton(move, index, totalRounds) ==
    <<"flashButton", move, index, totalRounds>>

lose == <<"lose">>

\* ---------------------------------------------------------------- helpers
\* The state a handler is entered in, kept for the claims about one call.
Snapshot(isBlue) ==
    [round |-> m_currentRound, sequence |-> m_sequence,
     progress |-> m_userIndex, lost |-> lost, op |-> op, isBlue |-> isBlue]

\* bool -> button identifier: false -> 0 (Red), true -> 1 (Blue).
ButtonOf(isBlue) == IF isBlue THEN 1 ELSE 0

\* std::rand() % 2
RandomMove(r) == r % 2

\* The press completes the sequence, so that addRound would run.
CompletesSequence(isBlue) ==
    /\ m_userIndex < Len(m_sequence)
    /\ m_sequence[m_userIndex + 1] = ButtonOf(isBlue)
    /\ m_userIndex + 1 = Len(m_sequence)

\* ------------------------------------------------------- view (MainWindow)
\* Number of one-shot timers that have not fired yet.
PendingTimers == BagCardinality(flashTimers) + BagCardinality(revertTimers)

\* The timers of bag b, each marked as scheduled before the last startGame.
MarkStale(b) ==
    LET olds == {[t EXCEPT !.stale = TRUE] : t \in BagToSet(b)}
    IN  [o \in olds |->
            (IF BagIn([o EXCEPT !.stale = FALSE], b)
               THEN CopiesIn([o EXCEPT !.stale = FALSE], b) ELSE 0)
          + (IF BagIn(o, b) THEN CopiesIn(o, b) ELSE 0)]

\* `background-color: red;` for the red button, `blue` for the blue one.
OwnColour(btn) == IF btn = 0 THEN "red" ELSE "blue"

\* MainWindow::updateProgressBar
updateProgressBar(cur, tot) ==
    /\ progressBar' = {IF tot > 0 THEN (cur * 100) \div tot ELSE 0}
    /\ UNCHANGED <<flashTimers, revertTimers, styleSheet>>

\* MainWindow::flashButton: QTimer::singleShot of the outer lambda, which
\* captures `button`.
MainWindow_flashButton(btn, cur, tot) ==
    /\ flashTimers' = flashTimers (+) SetToBag({[button |-> btn, stale |-> FALSE]})
    /\ UNCHANGED <<revertTimers, styleSheet, progressBar>>

\* ------------------------------------------------------------------- Init
Init ==
    /\ m_currentRound = 0
    /\ m_sequence = <<>>
    /\ m_userIndex = 0
    /\ pc = "idle"
    /\ op = "none"
    /\ button = 0
    /\ i = 0
    /\ trace = <<>>
    /\ reads = {}
    /\ lost = FALSE
    /\ pre = [round |-> 0, sequence |-> <<>>, progress |-> 0, lost |-> FALSE,
              op |-> "none", isBlue |-> FALSE]

\* -------------------------------------------------------------- startGame
\* Mutation of startGame: the round counter is not reset.
startGame_KeepRound ==
    /\ pc = "idle"
    /\ PendingTimers + 1 <= cap
    /\ pre' = Snapshot(FALSE)
    /\ op' = "startGame"
    /\ trace' = <<>>
    /\ reads' = {}
    /\ lost' = FALSE
    /\ pc' = "sg_clear"
    /\ UNCHANGED <<state, button, i>>
    /\ flashTimers' = MarkStale(flashTimers)
    /\ revertTimers' = MarkStale(revertTimers)
    /\ UNCHANGED <<styleSheet, progressBar, aside>>

\* Mutation of startGame: the flashes still pending are cancelled.
startGame_Cancel ==
    /\ pc = "idle"
    /\ PendingTimers + 1 <= cap
    /\ pre' = Snapshot(FALSE)
    /\ op' = "startGame"
    /\ trace' = <<>>
    /\ reads' = {}
    /\ lost' = FALSE
    /\ m_currentRound' = 0
    /\ pc' = "sg_clear"
    /\ UNCHANGED <<m_sequence, m_userIndex, button, i>>
    /\ flashTimers' = EmptyBag
    /\ revertTimers' = MarkStale(revertTimers)
    /\ UNCHANGED <<styleSheet, progressBar, aside>>

\* Entry of the slot and `m_currentRound = 0`.
startGame ==
    /\ pc = "idle"
    /\ PendingTimers + 1 <= cap
    /\ pre' = Snapshot(FALSE)
    /\ op' = "startGame"
    /\ trace' = <<>>
    /\ reads' = {}
    /\ lost' = FALSE
    /\ m_currentRound' = 0
    /\ pc' = "sg_clear"
    /\ UNCHANGED <<m_sequence, m_userIndex, button, i>>
    /\ flashTimers' = MarkStale(flashTimers)
    /\ revertTimers' = MarkStale(revertTimers)
    /\ UNCHANGED <<styleSheet, progressBar, aside>>

\* Mutation of startGameClear: the sequence of the last game is kept.
startGameClear_Keep ==
    /\ pc = "sg_clear"
    /\ pc' = "sg_index"
    /\ UNCHANGED <<state, op, button, i, trace, reads, lost, pre>>
    /\ UNCHANGED <<view, aside>>

\* `m_sequence.clear()`
startGameClear ==
    /\ pc = "sg_clear"
    /\ m_sequence' = <<>>
    /\ pc' = "sg_index"
    /\ UNCHANGED <<m_currentRound, m_userIndex, op, button, i, trace, reads,
                   lost, pre>>
    /\ UNCHANGED <<view, aside>>

\* `m_userIndex = 0`, then the call of addRound.
startGameIndex ==
    /\ pc = "sg_index"
    /\ m_userIndex' = 0
    /\ pc' = "ar_inc"
    /\ UNCHANGED <<m_currentRound, m_sequence, op, button, i, trace, reads,
                   lost, pre>>
    /\ UNCHANGED <<view, aside>>

\* --------------------------------------------------------------- addRound
\* `m_currentRound++`
addRoundIncrement ==
    /\ pc = "ar_inc"
    /\ m_currentRound' = m_currentRound + 1
    /\ pc' = "ar_reset"
    /\ UNCHANGED <<m_sequence, m_userIndex, op, button, i, trace, reads,
                   lost, pre>>
    /\ UNCHANGED <<view, aside>>

\* `m_userIndex = 0`
addRoundReset ==
    /\ pc = "ar_reset"
    /\ m_userIndex' = 0
    /\ pc' = "ar_random"
    /\ UNCHANGED <<m_currentRound, m_sequence, op, button, i, trace, reads,
                   lost, pre>>
    /\ UNCHANGED <<view, aside>>

\* Mutation of addRandomMove: the move is put in front (prepend for append).
addRandomMove_Prepend ==
    /\ pc = "ar_random"
    /\ \E r \in 0..MaxRand :
          m_sequence' = <<RandomMove(r)>> \o m_sequence
    /\ pc' = "ar_total"
    /\ UNCHANGED <<m_currentRound, m_userIndex, op, button, i, trace, reads,
                   lost, pre>>
    /\ UNCHANGED <<view, aside>>

\* `int move = std::rand() % 2; m_sequence.append(move);`
addRandomMove ==
    /\ pc = "ar_random"
    /\ \E r \in 0..MaxRand :
          m_sequence' = Append(m_sequence, RandomMove(r))
    /\ pc' = "ar_total"
    /\ UNCHANGED <<m_currentRound, m_userIndex, op, button, i, trace, reads,
                   lost, pre>>
    /\ UNCHANGED <<view, aside>>

\* `emit totalRoundUpdated(m_currentRound)`
addRoundEmitTotal ==
    /\ pc = "ar_total"
    /\ trace' = Append(trace, totalRoundUpdated(m_currentRound))
    /\ pc' = "ar_progress"
    /\ UNCHANGED <<state, op, button, i, reads, lost, pre>>
    /\ UNCHANGED <<view, aside>>

\* Mutation of addRoundEmitProgress: the view is not told that progress is
\* back at 0.
addRoundEmitProgress_Silent ==
    /\ pc = "ar_progress"
    /\ pc' = "ar_started"
    /\ UNCHANGED <<state, op, button, i, trace, reads, lost, pre>>
    /\ UNCHANGED <<view, aside>>

\* `emit totalAndCurrentRound(m_userIndex, m_currentRound)`
addRoundEmitProgress ==
    /\ pc = "ar_progress"
    /\ trace' = Append(trace, totalAndCurrentRound(m_userIndex, m_currentRound))
    /\ pc' = "ar_started"
    /\ UNCHANGED <<state, op, button, i, reads, lost, pre>>
    /\ updateProgressBar(m_userIndex, m_currentRound)
    /\ UNCHANGED aside

\* `emit roundStarted(m_currentRound)`, then the call of playSequence
\* (`int i = 0`).
addRoundEmitStarted ==
    /\ pc = "ar_started"
    /\ trace' = Append(trace, roundStarted(m_currentRound))
    /\ i' = 0
    /\ pc' = "ps_loop"
    /\ UNCHANGED <<state, op, button, reads, lost, pre>>
    /\ UNCHANGED <<view, aside>>

\* Mutation of playSequence: the index sent is 1-based.
playSequence_OneBased ==
    /\ pc = "ps_loop"
    /\ IF i < Len(m_sequence)
         THEN /\ trace' = Append(trace,
                            flashButton(m_sequence[i + 1], i + 1, m_currentRound))
              /\ i' = i + 1
              /\ pc' = "ps_loop"
              /\ MainWindow_flashButton(m_sequence[i + 1], i + 1, m_currentRound)
         ELSE /\ pc' = "idle"
              /\ UNCHANGED <<trace, i, view>>
    /\ UNCHANGED <<state, op, button, reads, lost, pre>>
    /\ UNCHANGED aside

\* ----------------------------------------------------------- playSequence
\* One turn of `for (...; i < m_sequence.size(); i++) emit flashButton(...)`,
\* or the exit of the loop, which ends addRound and the handler.
playSequence ==
    /\ pc = "ps_loop"
    /\ IF i < Len(m_sequence)
         THEN /\ trace' = Append(trace,
                            flashButton(m_sequence[i + 1], i, m_currentRound))
              /\ i' = i + 1
              /\ pc' = "ps_loop"
              /\ MainWindow_flashButton(m_sequence[i + 1], i, m_currentRound)
         ELSE /\ pc' = "idle"
              /\ UNCHANGED <<trace, i, view>>
    /\ UNCHANGED <<state, op, button, reads, lost, pre>>
    /\ UNCHANGED aside

\* ------------------------------------------------------ checkIsTrueButton
\* Entry of the slot and `int button = isBlue ? 1 : 0`.
checkIsTrueButton(isBlue) ==
    /\ pc = "idle"
    /\ CompletesSequence(isBlue) =>
          PendingTimers + m_currentRound + 1 <= cap
    /\ ~(CompletesSequence(isBlue) /\ m_currentRound >= MaxRound)
    /\ pre' = Snapshot(isBlue)
    /\ op' = "checkIsTrueButton"
    /\ trace' = <<>>
    /\ reads' = {}
    /\ button' = ButtonOf(isBlue)
    /\ pc' = "cb_bound"
    /\ UNCHANGED <<state, i, lost>>
    /\ UNCHANGED <<view, aside>>

\* Mutation of checkBound: the range check is missing.
checkBound_NoGuard ==
    /\ pc = "cb_bound"
    /\ pc' = "cb_read"
    /\ UNCHANGED <<state, op, button, i, trace, reads, lost, pre>>
    /\ UNCHANGED <<view, aside>>

\* Left operand of the `&&`: `m_userIndex < m_sequence.size()`.  The right
\* operand is evaluated only when it holds.
checkBound ==
    /\ pc = "cb_bound"
    /\ pc' = IF m_userIndex < Len(m_sequence) THEN "cb_read" ELSE "cb_lose"
    /\ UNCHANGED <<state, op, button, i, trace, reads, lost, pre>>
    /\ UNCHANGED <<view, aside>>

\* Right operand: `m_sequence[m_userIndex] == button`.
checkRead ==
    /\ pc = "cb_read"
    /\ reads' = reads \cup {m_userIndex}
    /\ pc' = IF m_sequence[m_userIndex + 1] = button THEN "cb_inc" ELSE "cb_lose"
    /\ UNCHANGED <<state, op, button, i, trace, lost, pre>>
    /\ UNCHANGED <<view, aside>>

\* Mutation of checkIncrement: progress advances by two.
checkIncrement_ByTwo ==
    /\ pc = "cb_inc"
    /\ m_userIndex' = m_userIndex + 2
    /\ pc' = "cb_emit"
    /\ UNCHANGED <<m_currentRound, m_sequence, op, button, i, trace, reads,
                   lost, pre>>
    /\ UNCHANGED <<view, aside>>

\* `m_userIndex++`
checkIncrement ==
    /\ pc = "cb_inc"
    /\ m_userIndex' = m_userIndex + 1
    /\ pc' = "cb_emit"
    /\ UNCHANGED <<m_currentRound, m_sequence, op, button, i, trace, reads,
                   lost, pre>>
    /\ UNCHANGED <<view, aside>>

\* Mutation of checkEmitProgress: the two arguments are swapped.
checkEmitProgress_Swapped ==
    /\ pc = "cb_emit"
    /\ trace' = Append(trace, totalAndCurrentRound(m_currentRound, m_userIndex))
    /\ pc' = "cb_done"
    /\ UNCHANGED <<state, op, button, i, reads, lost, pre>>
    /\ updateProgressBar(m_currentRound, m_userIndex)
    /\ UNCHANGED aside

\* `emit totalAndCurrentRound(m_userIndex, m_currentRound)`
checkEmitProgress ==
    /\ pc = "cb_emit"
    /\ trace' = Append(trace, totalAndCurrentRound(m_userIndex, m_currentRound))
    /\ pc' = "cb_done"
    /\ UNCHANGED <<state, op, button, i, reads, lost, pre>>
    /\ updateProgressBar(m_userIndex, m_currentRound)
    /\ UNCHANGED aside

\* Mutation of checkCompleted: addRound runs after every correct press.
checkCompleted_Always ==
    /\ pc = "cb_done"
    /\ pc' = "ar_inc"
    /\ UNCHANGED <<state, op, button, i, trace, reads, lost, pre>>
    /\ UNCHANGED <<view, aside>>

\* Mutation of checkCompleted: the next round is never started.
checkCompleted_Never ==
    /\ pc = "cb_done"
    /\ pc' = "idle"
    /\ UNCHANGED <<state, op, button, i, trace, reads, lost, pre>>
    /\ UNCHANGED <<view, aside>>

\* `if (m_userIndex == m_sequence.size()) addRound();`
checkCompleted ==
    /\ pc = "cb_done"
    /\ pc' = IF m_userIndex = Len(m_sequence) THEN "ar_inc" ELSE "idle"
    /\ UNCHANGED <<state, op, button, i, trace, reads, lost, pre>>
    /\ UNCHANGED <<view, aside>>

\* Mutation of checkLose: the progress of the round is reset on a loss.
checkLose_AutoReset ==
    /\ pc = "cb_lose"
    /\ trace' = Append(trace, lose)
    /\ lost' = TRUE
    /\ m_userIndex' = 0
    /\ pc' = "idle"
    /\ UNCHANGED <<m_currentRound, m_sequence, op, button, i, reads, pre>>
    /\ UNCHANGED <<view, aside>>

\* `emit lose()`
checkLose ==
    /\ pc = "cb_lose"
    /\ trace' = Append(trace, lose)
    /\ lost' = TRUE
    /\ pc' = "idle"
    /\ UNCHANGED <<state, op, button, i, reads, pre>>
    /\ UNCHANGED <<view, aside>>

\* ----------------------------------------------------------------- timers
\* The outer lambda of MainWindow::flashButton fires: the button turns
\* yellow and the revert lambda is scheduled.
flashTimeout(t) ==
    /\ pc = "idle"
    /\ BagIn(t, flashTimers)
    /\ flashTimers' = flashTimers (-) SetToBag({t})
    /\ styleSheet' = [styleSheet EXCEPT ![t.button] = "yellow"]
    /\ revertTimers' = revertTimers (+) SetToBag({t})
    /\ UNCHANGED <<vars, progressBar, aside>>

\* Mutation of revertTimeout: the button is always set back to red.
revertTimeout_AlwaysRed(t) ==
    /\ pc = "idle"
    /\ BagIn(t, revertTimers)
    /\ revertTimers' = revertTimers (-) SetToBag({t})
    /\ styleSheet' = [styleSheet EXCEPT ![t.button] = "red"]
    /\ UNCHANGED <<vars, flashTimers, progressBar, aside>>

\* The inner lambda fires: the button gets its own colour back.
revertTimeout(t) ==
    /\ pc = "idle"
    /\ BagIn(t, revertTimers)
    /\ revertTimers' = revertTimers (-) SetToBag({t})
    /\ styleSheet' = [styleSheet EXCEPT ![t.button] = OwnColour(t.button)]
    /\ UNCHANGED <<vars, flashTimers, progressBar, aside>>

\* The pairs (button, stale) a timer can carry.
Timers == [button : {0, 1}, stale : BOOLEAN]

\* ------------------------------------- MainWindow::flashButton, the delays
RECURSIVE Pow(_, _)
Pow(b, e) == IF e = 0 THEN 1 ELSE b * Pow(b, e - 1)

\* `static_cast<int>(1000 * std::pow(0.9, total))`: 1000 * 9^total / 10^total
\* with the fraction cut off (the value is positive), computed without
\* leaving 32 bits.
BaseDelay(tot) ==
    IF tot <= 3 THEN Pow(9, tot) * Pow(10, 3 - tot)
                ELSE Pow(9, tot) \div Pow(10, tot - 3)

\* The slot is entered with the arguments of a flashButton signal: a round
\* tot >= 1 and an index cur below it.
flashButtonCall(tot, cur) ==
    /\ dpc = "idle"
    /\ total' = tot
    /\ current' = cur
    /\ baseDelay' = 0
    /\ flashDelay' = 0
    /\ revertDelay' = 0
    /\ dpc' = "base"
    /\ UNCHANGED <<vars, view, anim, cap>>

\* `int baseDelay = static_cast<int>(1000 * std::pow(0.9, total));`
flashButtonBaseDelay ==
    /\ dpc = "base"
    /\ baseDelay' = BaseDelay(total)
    /\ dpc' = "shot"
    /\ UNCHANGED <<vars, view, anim, cap, total, current, flashDelay, revertDelay>>

\* Mutation of flashButtonSingleShot: the first move gets the longest delay.
flashButtonSingleShot_Reversed ==
    /\ dpc = "shot"
    /\ flashDelay' = baseDelay * (total - 1 - current)
    /\ dpc' = "lambda"
    /\ UNCHANGED <<vars, view, anim, cap, total, current, baseDelay, revertDelay>>

\* `QTimer::singleShot(baseDelay * current, ...)`
flashButtonSingleShot ==
    /\ dpc = "shot"
    /\ flashDelay' = baseDelay * current
    /\ dpc' = "lambda"
    /\ UNCHANGED <<vars, view, anim, cap, total, current, baseDelay, revertDelay>>

\* `QTimer::singleShot(baseDelay / 2, ...)` in the outer lambda, after which
\* the slot and its lambda are done.
flashButtonRevert ==
    /\ dpc = "lambda"
    /\ revertDelay' = baseDelay \div 2
    /\ dpc' = "idle"
    /\ UNCHANGED <<vars, view, anim, cap, total, current, baseDelay, flashDelay>>

delayInit ==
    /\ total = 0
    /\ current = 0
    /\ baseDelay = 0
    /\ flashDelay = 0
    /\ revertDelay = 0
    /\ dpc = "idle"

NextDelay ==
    \/ \E tot \in 1..MaxTotal : \E cur \in 0..(tot - 1) : flashButtonCall(tot, cur)
    \/ flashButtonBaseDelay
    \/ flashButtonSingleShot
    \/ flashButtonRevert

\* -------------------------------------- MainWindow, layout and animation
\* `int maxAttempts = 100;`
maxAttempts == 100

\* Width and height of the widgets as laid out by ui->setupUi(this).
WidgetSizes ==
    [startButton |-> <<40, 20>>, statusLabel |-> <<80, 20>>,
     progressBar |-> <<120, 20>>, redButton |-> <<80, 60>>,
     blueButton |-> <<80, 60>>]

\* Sizes of the central widget the window is given.
AreaSizes == {<<200, 200>>, <<240, 200>>}

\* QRect(x, y, w, h)
QRect(x, y, w, h) == [x |-> x, y |-> y, w |-> w, h |-> h]

\* `QRect redCandidate;`: the null rectangle.
NullRect == QRect(0, 0, 0, 0)

Max(a, b) == IF a >= b THEN a ELSE b

Right(r) == r.x + r.w - 1

Bottom(r) == r.y + r.h - 1

IsNull(r) == r.w = 0 /\ r.h = 0

\* QRect::intersects
Intersects(a, b) ==
    /\ ~IsNull(a)
    /\ ~IsNull(b)
    /\ a.x <= Right(b)
    /\ b.x <= Right(a)
    /\ a.y <= Bottom(b)
    /\ b.y <= Bottom(a)

\* MainWindow::positionWidgets for a central widget of the given size: the
\* area and the geometry of the three widgets the buttons must keep off.
positionWidgets(size) ==
    LET cx == size[1] \div 2
        cy == size[2] \div 2
        startW == WidgetSizes.startButton[1]
        startH == WidgetSizes.startButton[2]
        startX == cx - startW \div 2
        startY == cy - startH \div 2
        labelW == WidgetSizes.statusLabel[1]
        labelH == WidgetSizes.statusLabel[2]
        labelX == cx - labelW \div 2
        labelY == startY - labelH - 20
        redW == WidgetSizes.redButton[1]
        redX == startX - redW - 20
        redY == startY + startH + 20
        blueX == startX + startW + 20
        blueY == redY
        pbW == WidgetSizes.progressBar[1]
        pbX == cx - pbW \div 2
        lowerY == Max(Bottom(QRect(redX, redY, redW, WidgetSizes.redButton[2])),
                      Bottom(QRect(blueX, blueY, WidgetSizes.blueButton[1],
                                   WidgetSizes.blueButton[2])))
        pbY == lowerY + 20
    IN  [area |-> QRect(0, 0, size[1], size[2]),
         progressBar |-> QRect(pbX, pbY, pbW, WidgetSizes.progressBar[2]),
         statusLabel |-> QRect(labelX, labelY, labelW, labelH),
         startButton |-> QRect(startX, startY, startW, startH)]

\* `QVector<QRect> forbidden`
forbidden ==
    <<geometry.progressBar, geometry.statusLabel, geometry.startButton>>

\* The values QRandomGenerator::global()->bounded(0, highest) is drawn from.
Bounded(highest) == {v \in 0..(highest - 1) : v % DrawStep = 0}

\* The inner `for (const QRect &rect : forbidden)` with its break.
KeepsOff(candidate) ==
    \A k \in 1..Len(forbidden) : ~Intersects(candidate, forbidden[k])

\* MainWindow::resizeEvent: positionWidgets() moves every widget, the two
\* buttons included, so the targets of the last animation are given up.
resizeEvent(size) ==
    /\ apc \in {"idle", "done"}
    /\ geometry' = positionWidgets(size)
    /\ redCandidate' = NullRect
    /\ blueCandidate' = NullRect
    /\ redValid' = FALSE
    /\ blueValid' = FALSE
    /\ attempt' = 0
    /\ apc' = "idle"
    /\ UNCHANGED <<vars, view, delay, cap>>

\* Entry of animateButtonMovement up to `bool redValid = false;`.
animateButtonMovement ==
    /\ apc \in {"idle", "done"}
    /\ redCandidate' = NullRect
    /\ blueCandidate' = NullRect
    /\ redValid' = FALSE
    /\ blueValid' = FALSE
    /\ attempt' = 0
    /\ apc' = "red_loop"
    /\ UNCHANGED <<vars, view, delay, cap, geometry>>

\* One turn of the search loop for the Red button.
redAttempt ==
    /\ apc = "red_loop"
    /\ attempt < maxAttempts /\ ~redValid
    /\ \E newX \in Bounded(geometry.area.w - WidgetSizes.redButton[1] + 1) :
       \E newY \in Bounded(geometry.area.h - WidgetSizes.redButton[2] + 1) :
          LET candidate == QRect(newX, newY, WidgetSizes.redButton[1],
                                 WidgetSizes.redButton[2])
          IN  /\ redCandidate' = candidate
              /\ redValid' = KeepsOff(candidate)
    /\ attempt' = attempt + 1
    /\ UNCHANGED <<vars, view, delay, cap, geometry, blueCandidate, blueValid,
                   apc>>

\* The Red loop ends (a valid candidate, or maxAttempts turns) and the Blue
\* loop is entered: `bool blueValid = false; int attempt = 0`.
redLoopExit ==
    /\ apc = "red_loop"
    /\ ~(attempt < maxAttempts /\ ~redValid)
    /\ blueValid' = FALSE
    /\ attempt' = 0
    /\ apc' = "blue_loop"
    /\ UNCHANGED <<vars, view, delay, cap, geometry, redCandidate,
                   blueCandidate, redValid>>

\* One turn of the search loop for the Blue button.
blueAttempt ==
    /\ apc = "blue_loop"
    /\ attempt < maxAttempts /\ ~blueValid
    /\ \E newX \in Bounded(geometry.area.w - WidgetSizes.blueButton[1] + 1) :
       \E newY \in Bounded(geometry.area.h - WidgetSizes.blueButton[2] + 1) :
          LET candidate == QRect(newX, newY, WidgetSizes.blueButton[1],
                                 WidgetSizes.blueButton[2])
          IN  /\ blueCandidate' = candidate
              /\ blueValid' = (KeepsOff(candidate)
                               /\ ~Intersects(candidate, redCandidate))
    /\ attempt' = attempt + 1
    /\ UNCHANGED <<vars, view, delay, cap, geometry, redCandidate, redValid,
                   apc>>

\* The Blue loop ends and the two animations are started with
\* redCandidate.topLeft() and blueCandidate.topLeft() as end values.
blueLoopExit ==
    /\ apc = "blue_loop"
    /\ ~(attempt < maxAttempts /\ ~blueValid)
    /\ apc' = "done"
    /\ UNCHANGED <<vars, view, delay, cap, geometry, redCandidate,
                   blueCandidate, redValid, blueValid, attempt>>

NextAnimate ==
    \/ \E size \in AreaSizes : resizeEvent(size)
    \/ animateButtonMovement
    \/ redAttempt
    \/ redLoopExit
    \/ blueAttempt
    \/ blueLoopExit

\* ------------------------------------------------------------------- Next
Next ==
    \/ startGame
    \/ startGameClear
    \/ startGameIndex
    \/ addRoundIncrement
    \/ addRoundReset
    \/ addRandomMove
    \/ addRoundEmitTotal
    \/ addRoundEmitProgress
    \/ addRoundEmitStarted
    \/ playSequence
    \/ \E isBlue \in BOOLEAN : checkIsTrueButton(isBlue)
    \/ checkBound
    \/ checkRead
    \/ checkIncrement
    \/ checkEmitProgress
    \/ checkCompleted
    \/ checkLose
    \/ \E t \in Timers : flashTimeout(t)
    \/ \E t \in Timers : revertTimeout(t)

\* MainWindow::MainWindow: the buttons get their colours; no timer runs.
viewInit ==
    /\ flashTimers = EmptyBag
    /\ revertTimers = EmptyBag
    /\ styleSheet = [btn \in {0, 1} |-> OwnColour(btn)]
    /\ progressBar = {}

allVars == <<vars, view, aside>>

\* Before the first roundStarted: positionWidgets() has run in the
\* constructor and no animation has.
animInit ==
    /\ geometry \in {positionWidgets(size) : size \in {<<200, 200>>}}
    /\ redCandidate = NullRect
    /\ blueCandidate = NullRect
    /\ redValid = FALSE
    /\ blueValid = FALSE
    /\ attempt = 0
    /\ apc = "idle"

SysInit == Init /\ viewInit /\ delayInit /\ animInit /\ cap = MaxPending

FairInit == Init /\ viewInit /\ delayInit /\ animInit /\ cap = FairPending

\* The engine with the view connected to it.
Spec == SysInit /\ [][Next]_allVars

\* A step inside a handler: the code between the entry of a slot and its
\* return has no wait, so a handler that has started runs to its end.
HandlerStep == pc # "idle" /\ Next

\* The engine and the view under the scheduling of the event loop: handlers
\* return, and of the pending one-shot timers of a button one fires at some
\* visit of the loop (which holds a fortiori when each of them fires).
SpecFair ==
    /\ FairInit
    /\ [][Next]_allVars
    /\ WF_allVars(HandlerStep)
    /\ \A btn \in {0, 1} :
          SF_allVars(\E t \in Timers : t.button = btn /\ flashTimeout(t))
    /\ \A btn \in {0, 1} :
          SF_allVars(\E t \in Timers : t.button = btn /\ revertTimeout(t))

\* The layout and the button animation of the view on their own.
SpecAnimate == SysInit /\ [][NextAnimate]_allVars

\* The delay arithmetic of MainWindow::flashButton on its own.
SpecDelay == SysInit /\ [][NextDelay]_allVars

TypeOK ==
    /\ m_currentRound \in 0..MaxRound
    /\ m_userIndex \in 0..MaxRound
    /\ Len(m_sequence) <= MaxRound
    /\ button \in {0, 1}
    /\ lost \in BOOLEAN
\* ------------------------------------------------- vocabulary of the claims
IsPrefix(s, t) ==
    /\ Len(s) <= Len(t)
    /\ \A k \in 1..Len(s) : s[k] = t[k]

\* The press recorded in snapshot p matches the element the player must
\* reproduce next.
Correct(p) ==
    /\ p.progress < Len(p.sequence)
    /\ p.sequence[p.progress + 1] = ButtonOf(p.isBlue)

\* The signals of one round setup, for the sequence and round reached.
BeginRoundTrace(seq, round) ==
    <<totalRoundUpdated(round), totalAndCurrentRound(0, round),
      roundStarted(round)>>
    \o [k \in 1..round |-> flashButton(seq[k], k - 1, round)]

Suffix(s, n) == SubSeq(s, Len(s) - n + 1, Len(s))

Kinds(s, kinds) == {k \in 1..Len(s) : s[k][1] \in kinds}

\* A handler has completed.
Done(name) == pc = "idle" /\ op = name

\* C1: once lose() was emitted, a later checkIsTrueButton call emits no
\* totalAndCurrentRound and no roundStarted until startGame runs again.
C1_LostIsTerminal ==
    (op = "checkIsTrueButton" /\ pre.lost)
        => Kinds(trace, {"totalAndCurrentRound", "roundStarted"}) = {}

\* C2: whenever a handler has completed (and initially), the length of the
\* sequence equals the round.
C2_LengthIsRound ==
    pc = "idle" => Len(m_sequence) = m_currentRound

C2_Witness ==
    /\ Done("startGame")
    /\ pre.lost
    /\ pre.round >= 2
    /\ Len(m_sequence) = 1

\* C3 as stated: 0 <= progress <= length(sequence) in every reachable state,
\* the states inside the handlers included.
C3_ProgressInRangeEverywhere ==
    0 <= m_userIndex /\ m_userIndex <= Len(m_sequence)

\* C3 amended: 0 <= progress <= length(sequence) in every reachable state,
\* the states inside checkIsTrueButton and addRound included, except the one
\* state inside startGame between m_sequence.clear() and m_userIndex = 0.
C3_ProgressInRange ==
    pc # "sg_index" => (0 <= m_userIndex /\ m_userIndex <= Len(m_sequence))

C3_Witness ==
    /\ pc = "ar_reset"
    /\ op = "checkIsTrueButton"
    /\ m_userIndex = Len(m_sequence)
    /\ m_userIndex >= 2

\* C4: an incorrect press (wrong colour, or progress out of range) emits
\* lose() and nothing else, and leaves round, sequence and progress as they
\* were when the press arrived.
C4_IncorrectMove ==
    (op = "checkIsTrueButton" /\ ~Correct(pre)) =>
        /\ state = <<pre.round, pre.sequence, pre.progress>>
        /\ trace = IF pc = "idle" THEN <<lose>> ELSE <<>>

C4_Witness ==
    /\ Done("checkIsTrueButton")
    /\ ~Correct(pre)
    /\ pre.progress >= 1
    /\ pre.progress < Len(pre.sequence)
    /\ trace = <<lose>>

\* C5: startGame ends in round 1 with a sequence of one element and progress
\* 0 from whatever state it is called in, and a second startGame right after
\* a first leaves round, sequence length and progress as the first left them.
C5_StartGameResets ==
    Done("startGame") =>
        /\ m_currentRound = 1
        /\ Len(m_sequence) = 1
        /\ m_userIndex = 0
        /\ pre.op = "startGame" =>
              /\ m_currentRound = pre.round
              /\ Len(m_sequence) = Len(pre.sequence)
              /\ m_userIndex = pre.progress

C5_Witness ==
    /\ Done("startGame")
    /\ pre.op = "startGame"
    /\ m_currentRound = 1

\* C6: a handler that ran addRound ends its signals with
\* totalRoundUpdated(round), totalAndCurrentRound(0, round),
\* roundStarted(round) and then one flashButton per index 0..round-1 in
\* ascending order, each with the move at that index and total = round;
\* startGame emits exactly these for round 1.
C6_BeginRoundOrder ==
    /\ Done("startGame") => trace = BeginRoundTrace(m_sequence, 1)
    /\ (Done("checkIsTrueButton") /\ m_currentRound # pre.round) =>
          /\ Len(trace) = 1 + 3 + m_currentRound
          /\ Suffix(trace, 3 + m_currentRound)
                = BeginRoundTrace(m_sequence, m_currentRound)
    /\ (pc = "idle" /\ Kinds(trace, {"totalRoundUpdated"}) # {}) =>
          Cardinality(Kinds(trace, {"flashButton"})) = m_currentRound

C6_Witness ==
    /\ Done("checkIsTrueButton")
    /\ m_currentRound = 3
    /\ m_sequence[1] # m_sequence[2]
    /\ Len(trace) = 7

\* C7: a correct press raises progress by one and emits
\* totalAndCurrentRound(new progress, round); exactly when the new progress
\* equals the sequence length the same call goes on with one round setup,
\* and otherwise that signal is the only one and round and sequence stay.
C7_CorrectMove ==
    (Done("checkIsTrueButton") /\ Correct(pre)) =>
        IF pre.progress + 1 = Len(pre.sequence)
          THEN /\ trace = <<totalAndCurrentRound(pre.round, pre.round)>>
                            \o BeginRoundTrace(m_sequence, pre.round + 1)
               /\ Len(m_sequence) = pre.round + 1
          ELSE /\ trace = <<totalAndCurrentRound(pre.progress + 1, pre.round)>>
               /\ m_userIndex = pre.progress + 1
               /\ m_currentRound = pre.round
               /\ m_sequence = pre.sequence

C7_Witness ==
    /\ Done("checkIsTrueButton")
    /\ Correct(pre)
    /\ pre.progress + 1 < Len(pre.sequence)
    /\ pre.progress >= 1
    /\ trace = <<totalAndCurrentRound(pre.progress + 1, pre.round)>>

\* C8: within one checkIsTrueButton call the round rises by at most one;
\* it rises, together with the sequence length, exactly at the press that
\* reproduces the last move of the round (progress = round - 1 correct
\* presses made before it), and at no earlier press of the pass.
C8_OneRoundPerPass ==
    op = "checkIsTrueButton" =>
        /\ m_currentRound \in {pre.round, pre.round + 1}
        /\ pc = "idle" =>
              /\ m_currentRound = pre.round + 1
                    <=> (Correct(pre) /\ pre.progress = pre.round - 1)
              /\ Len(m_sequence) - Len(pre.sequence)
                    = m_currentRound - pre.round

C8_Witness ==
    /\ Done("checkIsTrueButton")
    /\ pre.round >= 3
    /\ pre.progress = pre.round - 1
    /\ m_currentRound = pre.round + 1
    /\ Len(m_sequence) = Len(pre.sequence) + 1

\* C9: a press before any startGame emits lose(), never reaches the read of
\* m_sequence[m_userIndex], and leaves round 0, the empty sequence and
\* progress 0.
C9_PressBeforeStart ==
    (op = "checkIsTrueButton" /\ pre.round = 0) =>
        /\ pc # "cb_read"
        /\ reads = {}
        /\ state = <<0, <<>>, 0>>
        /\ pc = "idle" => trace = <<lose>>

C9_Witness ==
    /\ Done("checkIsTrueButton")
    /\ pre.round = 0
    /\ pre.isBlue
    /\ trace = <<lose>>
    /\ reads = {}

\* C10: every step leaves the sequence alone, clears it (startGame) or
\* appends one element to it (addRandomMove); during a checkIsTrueButton
\* call the sequence at entry stays a prefix of the sequence, and every
\* element is 0 (Red) or 1 (Blue).
C10_SequenceAppendOnly ==
    /\ [](/\ \A k \in 1..Len(m_sequence) : m_sequence[k] \in {0, 1}
          /\ op = "checkIsTrueButton" =>
                /\ IsPrefix(pre.sequence, m_sequence)
                /\ Len(m_sequence) <= Len(pre.sequence) + 1)
    /\ [][\/ m_sequence' = m_sequence
          \/ op = "startGame" /\ pc = "sg_clear" /\ m_sequence' = <<>>
          \/ /\ pc = "ar_random"
             /\ Len(m_sequence') = Len(m_sequence) + 1
             /\ IsPrefix(m_sequence, m_sequence')]_vars

C10_Witness ==
    /\ Done("checkIsTrueButton")
    /\ Len(pre.sequence) >= 2
    /\ m_sequence = Append(pre.sequence, 1 - pre.sequence[1])
\* Pending outer lambdas that will flash button btn.
FlashCount(btn) ==
    LET b == flashTimers
    IN  (IF BagIn([button |-> btn, stale |-> FALSE], b)
           THEN CopiesIn([button |-> btn, stale |-> FALSE], b) ELSE 0)
      + (IF BagIn([button |-> btn, stale |-> TRUE], b)
           THEN CopiesIn([button |-> btn, stale |-> TRUE], b) ELSE 0)

\* A flash scheduled before the last startGame is still pending for btn.
StaleFlashPending(btn) == BagIn([button |-> btn, stale |-> TRUE], flashTimers)

\* C11: no step cancels a pending flash callback: the number of pending
\* flashes of a button only drops, by one, in the step in which one of them
\* fires and turns the button yellow; startGame and addRound leave them all
\* pending, and a flash left from an earlier game does fire (the button
\* turns yellow) under the scheduling of the event loop.
C11_NoCancellation ==
    /\ [][\A btn \in {0, 1} :
            \/ FlashCount(btn)' >= FlashCount(btn)
            \/ /\ pc = "idle" /\ pc' = "idle"
               /\ FlashCount(btn)' = FlashCount(btn) - 1
               /\ styleSheet'[btn] = "yellow"]_allVars
    /\ \A btn \in {0, 1} : StaleFlashPending(btn) ~> (styleSheet[btn] = "yellow")

\* A button is yellow for a flash of the game before: the sequence of that
\* game was cleared and the present one does not contain the move.
C11_Witness ==
    /\ Done("startGame")
    /\ \E t \in BagToSet(revertTimers) :
          /\ t.stale
          /\ styleSheet[t.button] = "yellow"
          /\ \A k \in 1..Len(m_sequence) : m_sequence[k] # t.button

\* C14: under the scheduling of the event loop a yellow button gets its own
\* colour back, and whenever no timer is pending both buttons show their
\* own colour.
C14_FlashReverts ==
    /\ [](PendingTimers = 0 => \A btn \in {0, 1} : styleSheet[btn] = OwnColour(btn))
    /\ \A btn \in {0, 1} :
          (styleSheet[btn] = "yellow") ~> (styleSheet[btn] = OwnColour(btn))

\* Reverts of two flashes of the same button, one from the game before, are
\* pending together while the button is yellow.
C14_Witness ==
    \E btn \in {0, 1} :
        /\ styleSheet[btn] = "yellow"
        /\ BagIn([button |-> btn, stale |-> TRUE], revertTimers)
        /\ BagIn([button |-> btn, stale |-> FALSE], revertTimers)
\* C12: when animateButtonMovement has chosen the targets, the red and the
\* blue target rectangle overlap neither each other nor the progress bar,
\* the status label or the start button.
C12_TargetsKeepOff ==
    apc = "done" =>
        /\ ~Intersects(redCandidate, blueCandidate)
        /\ KeepsOff(redCandidate)
        /\ KeepsOff(blueCandidate)
\* C13: after a handler has completed with round >= 1, progress is below
\* the sequence length; lose() is reached without a read of the sequence
\* (the out-of-range branch) only before the first startGame, and every
\* other lose() follows a read of sequence[progress] that differs from the
\* button pressed.
C13_ProgressBelowLength ==
    /\ (pc = "idle" /\ m_currentRound >= 1) => m_userIndex < Len(m_sequence)
    /\ (pc = "cb_lose" /\ reads = {}) => (pre.round = 0 /\ m_sequence = <<>>)
    /\ (pc = "cb_lose" /\ pre.round >= 1) =>
          /\ reads = {m_userIndex}
          /\ m_sequence[m_userIndex + 1] # button

C13_Witness ==
    /\ pc = "cb_lose"
    /\ pre.round >= 2
    /\ pre.lost
    /\ reads = {m_userIndex}
    /\ m_userIndex >= 1

\* 1000 * 9^n / 10^n lies in [d, d + 1).
IsTruncated(d, n) ==
    IF n <= 3 THEN d * Pow(10, n) = 1000 * Pow(9, n)
              ELSE /\ d * Pow(10, n - 3) <= Pow(9, n)
                   /\ Pow(9, n) < (d + 1) * Pow(10, n - 3)

\* C15: for a round total >= 1 and an index current < total the slot takes
\* baseDelay = trunc(1000 * 0.9^total), gives the flash the delay
\* baseDelay * current and the revert the delay baseDelay / 2; both are
\* non-negative, and no lower index of the round has a longer flash delay.
C15_Delays ==
    (dpc = "idle" /\ total >= 1) =>
        /\ IsTruncated(baseDelay, total)
        /\ flashDelay = baseDelay * current
        /\ revertDelay = baseDelay \div 2
        /\ flashDelay >= 0
        /\ revertDelay >= 0
        /\ \A j \in 0..current : BaseDelay(total) * j <= flashDelay

C15_Witness ==
    /\ dpc = "idle"
    /\ total >= 4
    /\ current = total - 1
    /\ flashDelay > baseDelay
    /\ revertDelay > 0

\* The totalAndCurrentRound signals of a trace.
ProgressSignals(s) == Kinds(s, {"totalAndCurrentRound"})

\* C16: every totalAndCurrentRound emitted has 0 <= matched <= total and
\* total >= 1, the value on the progress bar is the one of the last such
\* signal and lies in 0..100, and when a handler has completed the value is
\* at most 99.
C16_ProgressBarRange ==
    /\ \A k \in ProgressSignals(trace) :
          /\ 0 <= trace[k][2]
          /\ trace[k][2] <= trace[k][3]
          /\ trace[k][3] >= 1
    /\ \A v \in progressBar : 0 <= v /\ v <= 100
    /\ ProgressSignals(trace) # {} =>
          LET last == CHOOSE k \in ProgressSignals(trace) :
                         \A j \in ProgressSignals(trace) : j <= k
          IN  progressBar = {(trace[last][2] * 100) \div trace[last][3]}
    /\ pc = "idle" => \A v \in progressBar : v <= 99

\* Inside the press that completes round 2 the bar shows 100.
C16_Witness ==
    /\ pc = "cb_done"
    /\ progressBar = {100}
    /\ m_currentRound = 2
====
